---- MODULE Spec2Model ----
\* Model of the full-squad select_team of "Linearly Optimising FPL Teams.ipynb":
\* the 0/1 program it builds (objective, constraints), the solve and the return.
EXTENDS Integers, FiniteSets, Sequences, TLC

VARIABLES
  expected_scores,    \* parameter: forecast points of each player
  prices,             \* parameter: price of each player
  total_budget,       \* parameter total_budget
  sub_factor,         \* parameter sub_factor, in fifths (1 is 0.2, 5 is 1.0)
  pc,                 \* position: "idle", "built", "solved", "returned", "shown"
  status,             \* model.status: "NotSolved", "Optimal", "Infeasible"
  decisions,          \* values of the x variables (<<>> while unsolved)
  captain_decisions,  \* values of the y variables
  sub_decisions,      \* values of the z variables
  printed,            \* the cell's output: the "Total expected score" in fifths of
                      \* a point, then the displayed starters, subs and captain
  prev,               \* the previous invocation: its configuration and what it printed
  model,              \* select_team's local model: which LpProblem object it names
  problems,           \* the LpProblem objects of select_team: objective and cost rows
  costs,              \* introductory example: cost of each item
  values              \* introductory example: value of each item, in tenths

vars == <<expected_scores, prices, total_budget, sub_factor, pc, status,
          decisions, captain_decisions, sub_decisions, printed, prev, model, problems,
          costs, values>>

-----------------------------------------------------------------------------
\* The player pool: positions and clubs of the sixteen players offered.
\* Goalkeepers 1-2, defenders 3-7, midfielders 8-13, forwards 14-16; club 1
\* has four players in the pool, every other club three.

positions == <<1, 1, 2, 2, 2, 2, 2, 3, 3, 3, 3, 3, 3, 4, 4, 4>>

clubs == <<1, 2, 1, 2, 3, 3, 4, 1, 2, 4, 4, 5, 1, 3, 5, 5>>

\* len(expected_scores): every input has one entry per player of the pool.
num_players == Len(positions)

Players == 1..num_players

\* sub_factor is kept as a number of fifths, so the objective is in fifths.
SubScale == 5

-----------------------------------------------------------------------------
\* Linear expressions over the binary variables.

\* sum(v[i] for i in C), v binary
Sum(v, C) == Cardinality({i \in C : v[i] = 1})

PosSet(p) == {i \in Players : positions[i] = p}

ClubSet(c) == {i \in Players : clubs[i] = c}

UniqueClubs == {clubs[i] : i \in Players}

-----------------------------------------------------------------------------
\* The constraints of select_team, each as a predicate on the value of its
\* left-hand side.

BudgetMutant(cost, budget) == cost >= budget

BudgetConstraint(cost, budget) == cost <= budget

StartGK(v) == v = 1

TotalGK(v) == v = 2

StartDEFMutant(v) == v >= 2 /\ v <= 5

StartDEF(v) == v >= 3 /\ v <= 5

TotalDEF(v) == v = 5

StartMIDMutant(v) == v >= 2 /\ v <= 5

StartMID(v) == v >= 3 /\ v <= 5

TotalMIDMutant(v) == v = 4

TotalMID(v) == v = 5

StartFWD(v) == v >= 1 /\ v <= 3

TotalFWD(v) == v = 3

ClubMutant(v) == v <= 4

ClubConstraint(v) == v <= 3

TeamSizeMutant(v) == v = 10

TeamSize(v) == v = 11

OneCaptain(v) == v = 1

CaptainOnTeamMutant(xi, yi) == xi - yi >= -1

CaptainEqualMutant(xi, yi) == xi - yi = 0

CaptainOnTeam(xi, yi) == xi - yi >= 0

SubNotOnTeam(xi, zi) == xi + zi <= 1

StartOf(p, v) ==
  CASE p = 1 -> StartGK(v)
    [] p = 2 -> StartDEF(v)
    [] p = 3 -> StartMID(v)
    [] p = 4 -> StartFWD(v)
    [] OTHER -> TRUE

TotalOf(p, v) ==
  CASE p = 1 -> TotalGK(v)
    [] p = 2 -> TotalDEF(v)
    [] p = 3 -> TotalMID(v)
    [] p = 4 -> TotalFWD(v)
    [] OTHER -> TRUE

\* Every constraint but the budget, on a full assignment a = [x, y, z].
PositionConstraints(a) ==
  \A p \in 1..4 : /\ StartOf(p, Sum(a.x, PosSet(p)))
                  /\ TotalOf(p, Sum(a.x, PosSet(p)) + Sum(a.z, PosSet(p)))

ClubConstraints(a) ==
  \A c \in UniqueClubs : ClubConstraint(Sum(a.x, ClubSet(c)) + Sum(a.z, ClubSet(c)))

\* for i in range(num_players): the players the per-player constraints are added for
PlayerRangeMutant == 1..(num_players - 1)

PlayerRange == Players

PlayerConstraints(a) ==
  \A i \in PlayerRange : CaptainOnTeam(a.x[i], a.y[i]) /\ SubNotOnTeam(a.x[i], a.z[i])

StructConstraints(a) ==
  /\ PositionConstraints(a)
  /\ ClubConstraints(a)
  /\ TeamSize(Sum(a.x, Players))
  /\ OneCaptain(Sum(a.y, Players))
  /\ PlayerConstraints(a)

-----------------------------------------------------------------------------
\* The solver's search space: every 0/1 assignment of x, y and z that meets
\* the constraints above. It is built position by position, each constraint
\* being applied as soon as the variables it reads are chosen; the captain
\* variables are chosen last.

Vec(S) == [i \in Players |-> IF i \in S THEN 1 ELSE 0]

Val(S, i) == IF i \in S THEN 1 ELSE 0

Zero == Vec({})

\* The players of position p (0 stands for any position other than 1..4).
ClassOf(p) == IF p = 0 THEN {i \in Players : positions[i] \notin 1..4} ELSE PosSet(p)

\* The x and z of the players of one position.
LocalXZ(p) ==
  {xz \in (SUBSET ClassOf(p)) \X (SUBSET ClassOf(p)) :
     /\ StartOf(p, Cardinality(xz[1]))
     /\ TotalOf(p, Cardinality(xz[1]) + Cardinality(xz[2]))
     /\ \A i \in ClassOf(p) \cap PlayerRange : SubNotOnTeam(Val(xz[1], i), Val(xz[2], i))}

JoinXZ ==
  {<<g[1] \cup d[1] \cup m[1] \cup f[1] \cup o[1], g[2] \cup d[2] \cup m[2] \cup f[2] \cup o[2]>> :
     g \in LocalXZ(1), d \in LocalXZ(2), m \in LocalXZ(3), f \in LocalXZ(4), o \in LocalXZ(0)}

SquadXZ ==
  {xz \in JoinXZ :
     /\ TeamSize(Cardinality(xz[1]))
     /\ \A c \in UniqueClubs :
          ClubConstraint(Cardinality(xz[1] \cap ClubSet(c)) + Cardinality(xz[2] \cap ClubSet(c)))}

\* The x and z parts that meet every constraint on x and z but the budget.
Lineups == {[x |-> Vec(xz[1]), z |-> Vec(xz[2])] : xz \in SquadXZ}

RECURSIVE SetToSeq(_)
SetToSeq(S) ==
  IF S = {} THEN <<>> ELSE LET e == CHOOSE e \in S : TRUE IN <<e>> \o SetToSeq(S \ {e})

\* The y parts that meet the constraint on the number of captains, numbered.
CaptainVecs ==
  SetToSeq({Vec(y) : y \in {y \in SUBSET Players : OneCaptain(Cardinality(y))}})

\* Each line-up with the (numbers of the) y parts it admits.
ByLineup ==
  {[l |-> l,
    ks |-> {k \in 1..Len(CaptainVecs) :
              \A i \in PlayerRange : CaptainOnTeam(l.x[i], CaptainVecs[k][i])}] :
     l \in Lineups}

Assign(l, y) == [x |-> l.x, y |-> y, z |-> l.z]

\* The assignments that satisfy every constraint except the budget.
StructFeasible ==
  {a \in {Assign(q[1].l, CaptainVecs[q[2]]) :
            q \in {q \in ByLineup \X (1..Len(CaptainVecs)) : q[2] \in q[1].ks}} :
     StructConstraints(a)}

-----------------------------------------------------------------------------
\* Objective and budget of select_team on an assignment.

\* sum((decisions[i] + sub_decisions[i]) * prices[i] for i in range(num_players))
RECURSIVE CostTo(_, _, _)
CostTo(a, pr, n) ==
  IF n = 0 THEN 0 ELSE (a.x[n] + a.z[n]) * pr[n] + CostTo(a, pr, n - 1)

CostStartersMutant(a, pr) == CostTo([x |-> a.x, z |-> Zero], pr, num_players)

Cost(a, pr) == CostTo(a, pr, num_players)

\* One term of the objective, times SubScale.
TermMutant(yi, xi, zi, f, es) == (SubScale * xi + zi * f) * es

TermSignMutant(yi, xi, zi, f, es) == (SubScale * (xi - yi) + zi * f) * es

Term(yi, xi, zi, f, es) == (SubScale * (yi + xi) + zi * f) * es

\* sum((captain_decisions[i] + decisions[i] + sub_decisions[i]*sub_factor)
\*     * expected_scores[i] for i in range(num_players)), times SubScale
RECURSIVE ObjectiveTo(_, _, _, _)
ObjectiveTo(a, es, f, n) ==
  IF n = 0 THEN 0
  ELSE Term(a.y[n], a.x[n], a.z[n], f, es[n]) + ObjectiveTo(a, es, f, n - 1)

Objective(a, es, f) == ObjectiveTo(a, es, f, num_players)

\* The line-ups within the budget (the budget reads x and z only).
Affordable(pr, budget) == {p \in ByLineup : BudgetConstraint(Cost(p.l, pr), budget)}

\* The assignments that satisfy every constraint of the model.
Feasible(pr, budget) == {a \in StructFeasible : BudgetConstraint(Cost(a, pr), budget)}

SetMax(S) == CHOOSE m \in S : \A n \in S : n <= m

\* The optimal assignments: the solver may return any of them. The objective
\* is linear, so it is summed over the (x, z) part and the y part separately.
Optimal(es, pr, budget, f) ==
  LET S    == {[l |-> p.l, ks |-> p.ks, s |-> Objective(Assign(p.l, Zero), es, f)] :
                 p \in {q \in Affordable(pr, budget) : q.ks # {}}}
      sy   == [k \in 1..Len(CaptainVecs) |->
                 Objective([x |-> Zero, y |-> CaptainVecs[k], z |-> Zero], es, f)] \o <<>>
      best == SetMax({p.s + SetMax({sy[k] : k \in p.ks}) : p \in S})
  IN  UNION {{Assign(p.l, CaptainVecs[k]) : k \in {k \in p.ks : p.s + sy[k] = best}} : p \in S}

-----------------------------------------------------------------------------
\* Inputs.

DefaultBudget == 100

DefaultSubFactor == 1

MaxBudgetSteps == 2

\* Budgets below, at and above the price of the cheapest squad, and the default.
Budgets == {80 + 4 * k : k \in 0..MaxBudgetSteps} \cup {DefaultBudget}

MaxSubFactor == 1

SubFactors == 0..MaxSubFactor

\* select_team takes whatever numbers it is given: a budget of nothing, and a
\* sub_factor above one (six fifths).
EdgeConfigs == {<<0, DefaultSubFactor>>, <<DefaultBudget, SubScale + 1>>}

\* The (total_budget, sub_factor) pairs select_team is called with.
Configs == (Budgets \X SubFactors) \cup EdgeConfigs

ScoreSets ==
  { <<14, 12, 15, 13, 11, 11, 10, 16, 18, 12, 10, 8, 25, 17, 15, 6>>,
    <<14, 12, 15, 13,  5,  4,  3, 16, 18, 12, 10, 8, 25, 17, 15, 6>> }

PriceSets ==
  { <<5, 4, 6, 5, 5, 4, 4, 7, 8, 6, 5, 4, 12, 8, 7, 4>>,
    <<5, 4, 6, 5, 5, 4, 4, 7, 8, 6, 5, 4,  8, 8, 7, 4>> }

NoValues == <<>>

\* The LpProblem objects told apart: the one a remembered call built and the
\* one the current call builds.
ProblemIds == {1, 2}

\* An LpProblem as constructed: no objective (-1), no rows. Of its rows only
\* the right-hand sides of the cost rows are kept: the other rows are the same
\* in every call on the pool.
EmptyProblem == [objective |-> -1, cost |-> {}]

\* A select_team that builds on the problem object the call before left,
\* instead of constructing its own.
LpProblemMutant(keep) == [id |-> model, content |-> problems[model]]

\* model = pulp.LpProblem("Constrained value maximisation", pulp.LpMaximize):
\* a new object, none of those still referred to (keep, or 0 for none).
LpProblem(keep) == [id |-> CHOOSE i \in ProblemIds : i # keep, content |-> EmptyProblem]

\* model += ..., "Objective": the objective of the problem is replaced.
\* model += ... <= total_budget: a cost row is added to the problem.
WithObjectiveAndCost(p, f, b) == [objective |-> f, cost |-> p.cost \cup {b}]

\* The cost rows of a problem hold together when the one with the least
\* right-hand side does.
CostBound(p) == CHOOSE b \in p.cost : \A c \in p.cost : b <= c

NoCall == [called |-> FALSE, total_budget |-> 0, sub_factor |-> 0, other |-> FALSE,
           status |-> "NotSolved", printed |-> <<>>, model |-> 0]

\* The call that has just returned, as remembered by a later one: its
\* configuration, its status and, when it found a roster, the total it printed.
\* Its problem object is let go at the return (model 0) unless the later call
\* keeps it.
ThisCall == [called |-> TRUE, total_budget |-> total_budget, sub_factor |-> sub_factor,
             other |-> FALSE, status |-> status,
             printed |-> IF status = "Optimal" THEN SubSeq(printed, 1, 1) ELSE <<>>,
             model |-> 0]

Init ==
  /\ expected_scores \in ScoreSets
  /\ prices \in PriceSets
  /\ total_budget = DefaultBudget
  /\ sub_factor = DefaultSubFactor
  /\ pc = "idle"
  /\ status = "NotSolved"
  /\ decisions = NoValues
  /\ captain_decisions = NoValues
  /\ sub_decisions = NoValues
  /\ printed = <<>>
  /\ prev = NoCall
  /\ model = 1
  /\ problems = [i \in ProblemIds |-> EmptyProblem]
  /\ costs = NoValues
  /\ values = NoValues

\* select_team up to the solve: the variables, the objective, the constraints.
Build(b, f, keep) ==
  /\ total_budget' = b
  /\ sub_factor' = f
  /\ LET p == LpProblem(keep)
     IN  /\ model' = p.id
         /\ problems' = [i \in ProblemIds |->
                           IF i = p.id THEN WithObjectiveAndCost(p.content, f, b)
                           ELSE IF i = keep THEN problems[i]
                           ELSE EmptyProblem]
  /\ pc' = "built"
  /\ status' = "NotSolved"
  /\ decisions' = NoValues
  /\ captain_decisions' = NoValues
  /\ sub_decisions' = NoValues
  /\ printed' = <<>>
  /\ UNCHANGED <<expected_scores, prices, costs, values>>

\* A call of select_team, from a fresh notebook, after the cells of the first
\* select_team, or after the cell of an earlier call has run to its end: the
\* display is the rest of the calling cell, and no cell starts before it.
SelectTeam ==
  /\ pc \in {"idle", "eleven_returned", "eleven_shown", "shown"}
  /\ \E c \in Configs : Build(c[1], c[2], 0)
  /\ prev' = NoCall

\* A second call with the same players and sub_factor and another budget, in
\* a later cell: the cell of the call before has run, display included.
SelectTeamAgain ==
  /\ pc = "shown"
  /\ \E b \in Budgets : Build(b, sub_factor, 0)
  /\ prev' = ThisCall

\* A value the solver may leave in a variable that is neither 0 nor 1.
Stray == [i \in Players |-> IF i = 1 THEN 2 ELSE 0]

\* What the variables hold after an infeasible solve is not fixed by the
\* program: nothing chosen, a line-up that ignores the budget, or values that
\* are not binary.
InfeasibleValues ==
  {Assign([x |-> Zero, z |-> Zero], Zero), CHOOSE a \in StructFeasible : TRUE,
   Assign([x |-> Stray, z |-> Stray], Zero)}

\* model.solve(), on the objective and the rows the problem holds
Solve ==
  /\ pc = "built"
  /\ \E b \in {CostBound(problems[model])}, f \in {problems[model].objective} :
       LET O == Optimal(expected_scores, prices, b, f)
       IN  \E a \in (IF O = {} THEN InfeasibleValues ELSE O) :
             /\ status' = IF O = {} THEN "Infeasible" ELSE "Optimal"
             /\ decisions' = a.x
             /\ captain_decisions' = a.y
             /\ sub_decisions' = a.z
  /\ pc' = "solved"
  /\ UNCHANGED <<expected_scores, prices, total_budget, sub_factor, printed, prev,
                 model, problems, costs, values>>

Values == [x |-> decisions, y |-> captain_decisions, z |-> sub_decisions]

\* print("Total expected score = ..."); return decisions, captain_decisions, sub_decisions
Return ==
  /\ pc = "solved"
  /\ \E f \in {problems[model].objective} :
       printed' = <<Objective(Values, expected_scores, f)>>
  /\ pc' = "returned"
  /\ UNCHANGED <<expected_scores, prices, total_budget, sub_factor, status,
                 decisions, captain_decisions, sub_decisions, prev, model, problems,
                 costs, values>>

\* The roster read off the returned variables.

Starters == {i \in Players : decisions[i] # 0}

Bench == {i \in Players : sub_decisions[i] = 1}

Captains == {i \in Players : captain_decisions[i] = 1}

\* The rest of the calling cell: display the starters, the subs, the captain.
Extract ==
  /\ pc = "returned"
  /\ printed' = printed \o <<Starters, Bench, Captains>>
  /\ pc' = "shown"
  /\ UNCHANGED <<expected_scores, prices, total_budget, sub_factor, status,
                 decisions, captain_decisions, sub_decisions, prev, model, problems,
                 costs, values>>

\* A further call on the same players: the first call over again, or a call
\* with the defaults, with no budget or with a sub_factor above one. The first
\* call of the run stays remembered (its cell has run, display included), with
\* whether a different call came after,
\* and its problem object is kept, so that what later calls do to it shows.
SelectTeamOther ==
  /\ pc = "shown"
  /\ LET first == IF prev.called THEN prev ELSE [ThisCall EXCEPT !.model = model]
     IN  \E c \in EdgeConfigs \cup {<<DefaultBudget, DefaultSubFactor>>,
                                    <<first.total_budget, first.sub_factor>>} :
           /\ Build(c[1], c[2], first.model)
           /\ prev' = [first EXCEPT !.other =
                         @ \/ c # <<first.total_budget, first.sub_factor>>]

-----------------------------------------------------------------------------
\* The first select_team of the notebook: the starting eleven and its captain
\* only, with a budget of 100 for the eleven.

RECURSIVE ElevenCostTo(_, _, _)
\* sum(decisions[i] * prices[i] for i in range(num_players))
ElevenCostTo(x, pr, n) == IF n = 0 THEN 0 ELSE x[n] * pr[n] + ElevenCostTo(x, pr, n - 1)

ElevenBudget(cost) == cost <= 100

ElevenSize(v) == v = 11

ElevenGK(v) == v = 1

ElevenDEF(v) == v >= 3 /\ v <= 5

ElevenMID(v) == v >= 3 /\ v <= 5

ElevenFWD(v) == v >= 1 /\ v <= 3

ElevenClub(v) == v <= 3

ElevenOneCaptain(v) == v = 1

ElevenCaptainOnTeam(xi, yi) == xi - yi >= 0

\* The constraints on decisions that do not read the prices.
ElevenLineup(x) ==
  /\ ElevenSize(Sum(x, Players))
  /\ ElevenGK(Sum(x, PosSet(1)))
  /\ ElevenDEF(Sum(x, PosSet(2)))
  /\ ElevenMID(Sum(x, PosSet(3)))
  /\ ElevenFWD(Sum(x, PosSet(4)))
  /\ \A c \in UniqueClubs : ElevenClub(Sum(x, ClubSet(c)))

\* Every constraint of the first select_team, on a = [x, y].
ElevenConstraints(a, pr) ==
  /\ ElevenBudget(ElevenCostTo(a.x, pr, num_players))
  /\ ElevenLineup(a.x)
  /\ ElevenOneCaptain(Sum(a.y, Players))
  /\ \A i \in Players : ElevenCaptainOnTeam(a.x[i], a.y[i])

RECURSIVE ElevenObjectiveTo(_, _, _)
\* sum((captain_decisions[i] + decisions[i]) * expected_scores[i] ...)
ElevenObjectiveTo(a, es, n) ==
  IF n = 0 THEN 0 ELSE (a.y[n] + a.x[n]) * es[n] + ElevenObjectiveTo(a, es, n - 1)

ElevenObjective(a, es) == ElevenObjectiveTo(a, es, num_players)

\* The solver's search space for decisions.
ElevenLineups == {x \in {Vec(S) : S \in SUBSET Players} : ElevenLineup(x)}

\* Each line-up of eleven with the (numbers of the) y parts it admits.
ElevenByLineup ==
  {[x |-> x,
    ks |-> {k \in 1..Len(CaptainVecs) :
              \A i \in Players : ElevenCaptainOnTeam(x[i], CaptainVecs[k][i])}] :
     x \in ElevenLineups}

\* Every optimum of the first select_team; none when no eleven satisfies the
\* constraints. As in Optimal, the objective is summed over the x part and the
\* y part separately.
ElevenOptimal(es, pr) ==
  LET S    == {[x |-> p.x, ks |-> p.ks, s |-> ElevenObjective([x |-> p.x, y |-> Zero], es)] :
                 p \in {q \in ElevenByLineup :
                          q.ks # {} /\ ElevenBudget(ElevenCostTo(q.x, pr, num_players))}}
      sy   == [k \in 1..Len(CaptainVecs) |->
                 ElevenObjective([x |-> Zero, y |-> CaptainVecs[k]], es)] \o <<>>
      best == SetMax({p.s + SetMax({sy[k] : k \in p.ks}) : p \in S})
  IN  UNION {{[x |-> p.x, y |-> CaptainVecs[k]] : k \in {k \in p.ks : p.s + sy[k] = best}} :
               p \in S}

\* The value of the optimum of the first select_team, when it has one.
ElevenBest(es, pr) ==
  ElevenObjective(CHOOSE a \in ElevenOptimal(es, pr) : TRUE, es)

\* What decisions and captain_decisions hold after an infeasible solve of the
\* first select_team: as for the second one, without the subs.
ElevenInfeasibleValues ==
  {[x |-> Zero, y |-> Zero], [x |-> CHOOSE x \in ElevenLineups : TRUE, y |-> Zero],
   [x |-> Stray, y |-> Zero]}

\* decisions, captain_decisions = select_team(es, pr, positions, clubs), with
\* the first select_team, on the scores and prices the kernel then holds: it
\* builds the model, solves it and returns the two lists of variables,
\* printing nothing.
CallEleven(es, pr) ==
  /\ expected_scores' = es
  /\ prices' = pr
  /\ LET O == ElevenOptimal(es, pr)
     IN  \E a \in (IF O = {} THEN ElevenInfeasibleValues ELSE O) :
           /\ status' = IF O = {} THEN "Infeasible" ELSE "Optimal"
           /\ decisions' = a.x
           /\ captain_decisions' = a.y
  /\ printed' = <<>>
  /\ pc' = "eleven_returned"
  /\ UNCHANGED <<total_budget, sub_factor, sub_decisions, prev, model, problems,
                 costs, values>>

\* The cells that assign expected_scores and prices (new random draws, or the
\* columns of df) and then call the first select_team. The notebook runs them
\* before the second select_team is defined.
SelectEleven ==
  /\ pc \in {"idle", "eleven_returned", "eleven_shown"}
  /\ \E es \in ScoreSets, pr \in PriceSets : CallEleven(es, pr)

\* The cell that only calls the first select_team again, on the scores and
\* prices an earlier cell assigned.
SelectElevenAgain ==
  /\ pc \in {"eleven_returned", "eleven_shown"}
  /\ CallEleven(expected_scores, prices)

\* The display cell that runs over the players: the starters, then the captain.
ExtractEleven ==
  /\ pc = "eleven_returned"
  /\ printed' = <<Starters, Captains>>
  /\ pc' = "eleven_shown"
  /\ UNCHANGED <<expected_scores, prices, total_budget, sub_factor, status,
                 decisions, captain_decisions, sub_decisions, prev, model, problems,
                 costs, values>>

\* for i in range(100)
PrintRange == 100

\* The display cell that runs over range(100) whatever the number of players.
\* With fewer players the first loop prints the starters and then reads past
\* the end of decisions: the cell stops there with an IndexError and no captain
\* is printed. With more, the players from the hundredth on are left out.
PrintEleven ==
  /\ pc = "eleven_returned"
  /\ printed' = IF num_players < PrintRange
                THEN <<Starters, {}>>
                ELSE <<{i \in Starters : i <= PrintRange}, {i \in Captains : i <= PrintRange}>>
  /\ pc' = "eleven_shown"
  /\ UNCHANGED <<expected_scores, prices, total_budget, sub_factor, status,
                 decisions, captain_decisions, sub_decisions, prev, model, problems,
                 costs, values>>

\* The cells of the notebook that select a team, in any number.
Next ==
  SelectEleven \/ SelectElevenAgain \/ ExtractEleven \/ PrintEleven
    \/ SelectTeam \/ Solve \/ Return \/ Extract

Spec == Init /\ [][Next]_vars

\* The same with repeated calls on the same players.
NextAgain ==
  SelectEleven \/ SelectElevenAgain \/ ExtractEleven \/ PrintEleven
    \/ SelectTeam \/ SelectTeamAgain \/ Solve \/ Return \/ Extract

SpecAgain == Init /\ [][NextAgain]_vars

\* The same with a further call that repeats the first one or differs from it.
NextOther ==
  SelectEleven \/ SelectElevenAgain \/ ExtractEleven \/ PrintEleven
    \/ SelectTeam \/ SelectTeamOther \/ Solve \/ Return \/ Extract

SpecOther == Init /\ [][NextOther]_vars

-----------------------------------------------------------------------------
\* The introductory example: items of a shop, each bought or not.

\* range(100) in the notebook; the model offers MaxItems items.
MaxItems == 12

Items == 1..MaxItems

\* costs between 5 and 20 (5 and 5 + w - 1 for a narrower draw)
CostDraw(a, b, w) == [i \in Items |-> 5 + ((a * i + b) % w)]

\* values = costs * uniform(0.9, 1.1), in tenths
ValueDraw(c, k) == [i \in Items |-> c[i] * (9 + ((k * i) % 3))]

CostDraws == {CostDraw(a, b, w) : a \in {1, 3, 5, 7}, b \in 0..2, w \in {6, 16}}

RECURSIVE ShopSum(_, _, _)
\* sum(decisions[i] * w[i] for i in range(n))
ShopSum(v, w, n) == IF n = 0 THEN 0 ELSE v[n] * w[n] + ShopSum(v, w, n - 1)

RECURSIVE ShopCount(_, _)
\* sum(decisions)
ShopCount(v, n) == IF n = 0 THEN 0 ELSE v[n] + ShopCount(v, n - 1)

\* total cost
ShopCost(c) == c <= 100

ShopItemsMutant(n) == n <= 11

\* total items
ShopItems(n) == n <= 10

ShopVec(S) == [i \in Items |-> IF i \in S THEN 1 ELSE 0]

ShopVecs == {ShopVec(S) : S \in SUBSET Items}

ShopFeasible(c) ==
  {v \in ShopVecs : ShopCost(ShopSum(v, c, MaxItems)) /\ ShopItems(ShopCount(v, MaxItems))}

ShopOptimal(c, w) ==
  LET F    == ShopFeasible(c)
      best == SetMax({ShopSum(v, w, MaxItems) : v \in F})
  IN  {v \in F : ShopSum(v, w, MaxItems) = best}

\* The state before the first cell runs: no data loaded, nothing solved.
InitShop ==
  /\ expected_scores = NoValues
  /\ prices = NoValues
  /\ total_budget = DefaultBudget
  /\ sub_factor = DefaultSubFactor
  /\ pc = "idle"
  /\ status = "NotSolved"
  /\ decisions = NoValues
  /\ captain_decisions = NoValues
  /\ sub_decisions = NoValues
  /\ printed = <<>>
  /\ prev = NoCall
  /\ model = 1
  /\ problems = [i \in ProblemIds |-> EmptyProblem]
  /\ costs = NoValues
  /\ values = NoValues

\* random fake data for costs and values
ShopData ==
  /\ pc = "idle"
  /\ \E c \in CostDraws, k \in 1..2 : costs' = c /\ values' = ValueDraw(c, k)
  /\ pc' = "shop_data"
  /\ UNCHANGED <<expected_scores, prices, total_budget, sub_factor, status,
                 decisions, captain_decisions, sub_decisions, printed, prev,
                 model, problems>>

\* the model, its objective and two constraints, and model.solve()
ShopSolve ==
  /\ pc = "shop_data"
  /\ decisions' \in ShopOptimal(costs, values)
  /\ status' = "Optimal"
  /\ pc' = "shop_solved"
  /\ UNCHANGED <<expected_scores, prices, total_budget, sub_factor,
                 captain_decisions, sub_decisions, printed, prev, model, problems,
                 costs, values>>

RECURSIVE ShopLines(_)
\* for i in range(100): if decisions[i].value() == 1: print(i, costs[i], values[i])
ShopLines(n) ==
  IF n = 0 THEN <<>>
  ELSE ShopLines(n - 1) \o (IF decisions[n] = 1 THEN <<<<n, costs[n], values[n]>>>> ELSE <<>>)

ShopPrint ==
  /\ pc = "shop_solved"
  /\ printed' = ShopLines(MaxItems)
  /\ pc' = "shop_printed"
  /\ UNCHANGED <<expected_scores, prices, total_budget, sub_factor, status,
                 decisions, captain_decisions, sub_decisions, prev, model, problems,
                 costs, values>>

NextShop == ShopData \/ ShopSolve \/ ShopPrint

SpecShop == InitShop /\ [][NextShop]_vars

-----------------------------------------------------------------------------
\* Claims.

\* select_team has returned the variables of a solved model.
RosterReturned == pc = "returned" /\ status = "Optimal"

RECURSIVE SumOver(_, _)
SumOver(S, w) ==
  IF S = {} THEN 0 ELSE LET i == CHOOSE i \in S : TRUE IN w[i] + SumOver(S \ {i}, w)

InPosition(S, p) == Cardinality({i \in S : positions[i] = p})

\* C1: a returned roster has exactly eleven starters.
C1_ElevenStarters == RosterReturned => Cardinality(Starters) = 11

C1_Witness ==
  RosterReturned /\ Cardinality(Starters) = 11 /\ total_budget = 84 /\ sub_factor = 1

\* C2: a returned roster has exactly one captain, and the captain is a starter,
\* not a bench player and not an unselected player.
C2_OneCaptainWhoStarts ==
  RosterReturned =>
    /\ Cardinality(Captains) = 1
    /\ \A c \in Captains : c \in Starters /\ c \notin Bench

C2_Witness ==
  RosterReturned /\ Captains = {13} /\ 13 \in Starters /\ Cardinality(Bench) = 4

\* C3: in a returned roster no player is both a starter and a substitute:
\* decisions[i] + sub_decisions[i] <= 1 for every player.
C3_StartersBenchDisjoint ==
  RosterReturned =>
    /\ \A i \in Players : decisions[i] + sub_decisions[i] <= 1
    /\ Starters \cap Bench = {}

C3_Witness ==
  RosterReturned /\ Starters \cap Bench = {} /\ Bench # {} /\ total_budget = 88

\* C4: a returned roster has fifteen players over starters and bench:
\* two goalkeepers, five defenders, five midfielders and three forwards.
C4_SquadOfFifteen ==
  RosterReturned =>
    /\ Cardinality(Starters) + Cardinality(Bench) = 15
    /\ InPosition(Starters, 1) + InPosition(Bench, 1) = 2
    /\ InPosition(Starters, 2) + InPosition(Bench, 2) = 5
    /\ InPosition(Starters, 3) + InPosition(Bench, 3) = 5
    /\ InPosition(Starters, 4) + InPosition(Bench, 4) = 3

C4_Witness ==
  /\ RosterReturned
  /\ Cardinality(Starters \cup Bench) = 15
  /\ InPosition(Bench, 3) = 1
  /\ 8 \notin Starters \cup Bench

\* C5: the prices of the starters and of the bench players of a returned
\* roster sum to at most total_budget; the captain adds no cost.
C5_WithinBudget ==
  RosterReturned => SumOver(Starters, prices) + SumOver(Bench, prices) <= total_budget

C5_Witness ==
  /\ RosterReturned
  /\ SumOver(Starters, prices) + SumOver(Bench, prices) < total_budget
  /\ SumOver(Starters, prices) + SumOver(Bench, prices) + prices[13] - prices[8] > total_budget
  /\ expected_scores[13] > expected_scores[8]

\* C6: in a returned roster every club of the input has at most three players
\* among the starters and the bench.
C6_ClubCap ==
  RosterReturned =>
    \A c \in {clubs[i] : i \in Players} :
      Cardinality({i \in Starters : clubs[i] = c}) + Cardinality({i \in Bench : clubs[i] = c}) <= 3

C6_Witness ==
  /\ RosterReturned
  /\ Cardinality({i \in Starters \cup Bench : clubs[i] = 1}) = 3
  /\ 13 \in Starters
  /\ 12 \in Bench

\* C7: the starting eleven of a returned roster has one goalkeeper, three to
\* five defenders, three to five midfielders and one to three forwards.
C7_Formation ==
  RosterReturned =>
    /\ InPosition(Starters, 1) = 1
    /\ InPosition(Starters, 2) \in 3..5
    /\ InPosition(Starters, 3) \in 3..5
    /\ InPosition(Starters, 4) \in 1..3

C7_Witness ==
  /\ RosterReturned
  /\ InPosition(Starters, 1) = 1
  /\ InPosition(Starters, 2) = 3
  /\ \E i \in Starters, j \in Bench :
       positions[i] = 2 /\ positions[j] = 4 /\ expected_scores[i] < expected_scores[j]

\* The objective of the specification, times SubScale, on an assignment.
RECURSIVE SpecObjective(_, _)
SpecObjective(a, n) ==
  IF n = 0 THEN 0
  ELSE expected_scores[n] * (SubScale * a.x[n] + SubScale * a.y[n] + sub_factor * a.z[n])
       + SpecObjective(a, n - 1)

\* C8: a returned roster maximizes sum of expected_score * (selected + captain
\* + sub_factor * substitute) over the assignments that satisfy the
\* constraints, and the printed total is that sum on the returned roster.
C8_Optimal ==
  RosterReturned =>
    LET F == Feasible(prices, total_budget)
        v == SpecObjective(Values, num_players)
    IN  /\ Values \in F
        /\ printed = <<v>>
        /\ \A b \in F : SpecObjective(b, num_players) <= v

C8_Witness ==
  /\ RosterReturned
  /\ printed = <<SpecObjective(Values, num_players)>>
  /\ \E b \in Feasible(prices, total_budget) :
       /\ b.x # decisions
       /\ \E i \in Players : b.x[i] + b.z[i] # decisions[i] + sub_decisions[i]
       /\ SpecObjective(b, num_players) < SpecObjective(Values, num_players)

\* C9: with the same players and sub_factor, a call with a budget at least
\* that of a call that found a roster finds one too, of at least its value.
C9_BudgetMonotone ==
  (pc = "returned" /\ prev.called /\ prev.status = "Optimal"
     /\ prev.total_budget <= total_budget) =>
    /\ status = "Optimal"
    /\ printed[1] >= prev.printed[1]

C9_Witness ==
  /\ pc = "returned" /\ prev.called /\ prev.status = "Optimal"
  /\ prev.total_budget < total_budget
  /\ status = "Optimal"
  /\ printed[1] > prev.printed[1]

\* C11: a call with total_budget = 0 on a pool of players does not return
\* its variables as a roster (it ends in NoFeasibleRoster).
C11_ZeroBudgetNoRoster == (total_budget = 0 /\ num_players > 0) => pc # "returned"

\* C12: a call whose configuration breaks 0 <= sub_factor <= 1 or
\* total_budget > 0, or whose player list is empty, is rejected before the
\* solver is called: it never gets as far as a solve.
C12_InvalidRejectedBeforeSolve ==
  (sub_factor < 0 \/ sub_factor > SubScale \/ total_budget <= 0 \/ num_players = 0) =>
    (pc \notin {"solved", "returned"} /\ status = "NotSolved")

\* C13: the extraction places no player in or out of the roster on a value
\* that is neither (within tolerance of) 0 nor 1: it ends in
\* AmbiguousAssignment and displays no starters, subs and captain.
C13_AmbiguousRejected ==
  (pc = "shown" /\ \E i \in Players :
     decisions[i] \notin {0, 1} \/ captain_decisions[i] \notin {0, 1} \/ sub_decisions[i] \notin {0, 1})
  => Len(printed) = 1

\* The assignments the constraints admit, whatever the prices: there are some,
\* and in each the captain starts and ten starters are not captain.
AdmittedCaptainsStart ==
  /\ StructFeasible # {}
  /\ \A a \in StructFeasible :
       /\ \A i \in Players : a.y[i] = 1 => a.x[i] = 1
       /\ Cardinality({i \in Players : a.x[i] = 1 /\ a.y[i] = 0}) = 10

\* C14: the captaincy constraint is an implication: a captain is a starter,
\* a starter need not be captain. The assignments the constraints admit exist
\* and each has ten starters who are not captain, and so has a returned roster.
C14_CaptainImplication ==
  /\ AdmittedCaptainsStart
  /\ RosterReturned =>
       /\ \A i \in Players : captain_decisions[i] = 1 => decisions[i] = 1
       /\ Cardinality({i \in Players : decisions[i] = 1 /\ captain_decisions[i] = 0}) = 10

C14_Witness ==
  /\ RosterReturned
  /\ total_budget = 88
  /\ sub_factor = 0
  /\ \E i \in Starters : captain_decisions[i] = 0 /\ expected_scores[i] > 0
  /\ \E a \in StructFeasible : a.x = decisions /\ a.z = sub_decisions /\ a.y # captain_decisions

\* The items printed by the introductory example.
Bought == {printed[k][1] : k \in 1..Len(printed)}

\* C15: the introductory example buys at most 10 items costing at most 100 in
\* all, and no set of at most 10 items costing at most 100 is worth more.
C15_ShopOptimal ==
  pc = "shop_printed" =>
    /\ Cardinality(Bought) <= 10
    /\ SumOver(Bought, costs) <= 100
    /\ \A T \in SUBSET Items :
         (Cardinality(T) <= 10 /\ SumOver(T, costs) <= 100)
           => SumOver(T, values) <= SumOver(Bought, values)

\* The item limit decides: ten items bought, an eleventh would fit the budget.
C15_Witness ==
  /\ pc = "shop_printed"
  /\ Cardinality(Bought) = 10
  /\ \E i \in Items \ Bought : SumOver(Bought, costs) + costs[i] <= 100

\* The problem a call of select_team with this budget and sub_factor builds
\* when it builds on nothing.
OwnProblem(b, f) == [objective |-> f, cost |-> {b}]

\* C16: calls of select_team are independent and idempotent. A call reads no
\* state left by another call: the problem it builds and solves holds its own
\* objective and its own cost row and nothing else. It changes no state left by
\* another call: the problem a remembered earlier call built is another object
\* and is still as that call left it. And a call with the players and
\* configuration of an earlier call has the same outcome and, when a roster is
\* found, the same objective value, whatever calls were made in between.
C16_IndependentIdempotent ==
  /\ pc \in {"built", "solved", "returned", "shown"} =>
       problems[model] = OwnProblem(total_budget, sub_factor)
  /\ (pc \in {"built", "solved", "returned", "shown"} /\ prev.called) =>
       /\ prev.model # model
       /\ problems[prev.model] = OwnProblem(prev.total_budget, prev.sub_factor)
  /\ (pc = "returned" /\ prev.called
        /\ prev.total_budget = total_budget /\ prev.sub_factor = sub_factor) =>
       /\ status = prev.status
       /\ status = "Optimal" => printed = prev.printed

\* The first call over again after a call with another configuration: its own
\* problem, the first call's problem untouched, the same value.
C16_Witness ==
  /\ pc = "returned" /\ prev.called /\ prev.other
  /\ prev.total_budget = total_budget /\ prev.sub_factor = sub_factor
  /\ prev.model # model
  /\ problems[model] = OwnProblem(total_budget, sub_factor)
  /\ problems[prev.model] = OwnProblem(prev.total_budget, prev.sub_factor)
  /\ status = "Optimal"
  /\ printed = prev.printed

\* C17: in a returned roster no starter has an expected score greater than
\* the captain's.
C17_CaptainIsTopStarter ==
  RosterReturned =>
    \A c \in Captains : \A i \in Starters : expected_scores[i] <= expected_scores[c]

\* The best player of the pool is out of the squad and another is captain.
C17_Witness ==
  /\ RosterReturned
  /\ 13 \notin Starters \cup Bench
  /\ \E c \in Captains :
       /\ c \in Starters
       /\ expected_scores[c] < expected_scores[13]
       /\ \A i \in Starters : expected_scores[i] <= expected_scores[c]

\* C18: with total_budget <= 100 every assignment the full-squad constraints
\* admit, read as starters and captain only, meets every constraint of the
\* first select_team; and the optimum of the first select_team is at least the
\* starters-and-captain part of the value of the returned full-squad roster.
C18_RefinesStartersOnly ==
  (pc = "returned" /\ total_budget <= 100) =>
    /\ \A a \in Feasible(prices, total_budget) :
         ElevenConstraints([x |-> a.x, y |-> a.y], prices)
    /\ status = "Optimal" =>
         SubScale * ElevenBest(expected_scores, prices)
           >= Objective(Assign([x |-> decisions, z |-> Zero], captain_decisions),
                        expected_scores, sub_factor)

\* The first select_team does strictly better with its eleven than the full
\* squad's eleven does: it need not pay for a bench.
C18_Witness ==
  /\ RosterReturned
  /\ total_budget <= 100
  /\ Feasible(prices, total_budget) # {}
  /\ SubScale * ElevenBest(expected_scores, prices)
       > Objective(Assign([x |-> decisions, z |-> Zero], captain_decisions),
                   expected_scores, sub_factor)

\* C10: when no assignment satisfies the constraints, select_team does not
\* return its variables as a roster.
C10_NoRosterWhenInfeasible == status = "Infeasible" => pc # "returned"

====
